---- MODULE Spec2Model ----
(***************************************************************************)
(* Model of src/concurrent_downloader.py: the orchestrator                 *)
(* run_concurrent_downloading_main, the worker coroutine                   *)
(* process_docket_chunk, the asyncio.Queue of API keys and the shared      *)
(* counter total_dockets_processed with its asyncio.Lock (Spec, FairSpec), *)
(* merge_databases on its own (MergeSpec) and several runs of the          *)
(* orchestrator in one process (RunsSpec).                                 *)
(*                                                                         *)
(* Worker ids are the enumerate() indices 0..n-1 of the source; chunk i of *)
(* the source is docket_chunks[i + 1] here (TLA+ sequences start at 1).    *)
(* The external collaborator CommentsDownloader is nondeterministic: its   *)
(* constructor and gather_comments_by_docket either return or raise.       *)
(* Statements of process_docket_chunk that operate on strings only         *)
(* (os.path.join, the slice api_key[-4:], logging calls) do not raise.     *)
(***************************************************************************)
EXTENDS Integers, Sequences, FiniteSets, Bags, TLC

\* ---- bounds of the model ------------------------------------------------
MaxDockets == 3
MaxKeys == 2
MaxChunkSize == 2
MaxStores == 2
MaxRuns == 2
MaxRunDockets == 2

\* the docket identifiers and API keys the inputs are drawn from
UnitOrder == <<"D1", "D2", "D3">>
CredentialOrder == <<"K1", "K2">>
Units == {UnitOrder[i] : i \in DOMAIN UnitOrder}
Credentials == {CredentialOrder[i] : i \in DOMAIN CredentialOrder}
\* values of the configuration constant MAX_CONCURRENT_WORKERS that are
\* explored: the source's 200 and a value below the number of keys
ConfiguredMaxWorkers == {1, 200}

ListsUpTo(S, n) == UNION {[1..k -> S] : k \in 0..n}

VARIABLES
  docket_ids,              \* the caller's list passed as all_docket_ids
  all_docket_ids,          \* parameter, rebound at line 256
  all_api_keys,            \* parameter
  MAX_CONCURRENT_WORKERS,  \* configuration, line 45
  DOCKETS_PER_TASK_CHUNK,  \* configuration, line 47
  main_pc,                 \* position of run_concurrent_downloading_main
  api_key_queue,           \* asyncio.Queue contents, FIFO
  num_active_workers,      \* local of the orchestrator, line 252
  docket_chunks,           \* local of the orchestrator, line 259
  pc,                      \* position of each process_docket_chunk task
  api_key,                 \* local api_key of each task
  idx,                     \* position of each task in its for loop
  temp_db_exists,          \* whether the task's temp_db_filename exists on disk
  task_result,             \* result of each task as seen by gather
  log,                     \* per-worker log file: the lines the current run wrote
  total_dockets_processed, \* module global, line 172
  counter_lock,            \* asyncio.Lock: TRUE when locked
  valid_temp_db_files,     \* local of the orchestrator, line 275
  failed_chunks,           \* chunks reported "failed to produce a database file"
  merge_called,            \* whether merge_databases has been invoked
  temp_dir_exists,         \* whether the directory TEMP_DB_DIR exists
  temp_db_files,           \* parameter of merge_databases: the listed stores
  temp_store,              \* the temporary database files on disk
  final_db,                \* the database file final_db_path on disk
  merge_pc,                \* position of merge_databases
  first_valid_temp_db,     \* local of merge_databases, line 58
  total_rows_merged,       \* local total_rows_merged_all_tables, line 105
  merge_run,               \* number of invocations of merge_databases so far
  reported                 \* the totals printed at line 302, one per finished run

vars == <<docket_ids, all_docket_ids, all_api_keys, MAX_CONCURRENT_WORKERS,
          DOCKETS_PER_TASK_CHUNK, main_pc, api_key_queue, num_active_workers,
          docket_chunks, pc, api_key, idx, temp_db_exists, task_result, log,
          total_dockets_processed, counter_lock, valid_temp_db_files,
          failed_chunks, merge_called, temp_dir_exists, temp_db_files,
          temp_store, final_db, merge_pc, first_valid_temp_db,
          total_rows_merged, merge_run, reported>>

config_vars == <<docket_ids, all_api_keys, MAX_CONCURRENT_WORKERS, DOCKETS_PER_TASK_CHUNK>>
main_vars == <<main_pc, num_active_workers, docket_chunks, all_docket_ids,
               valid_temp_db_files, failed_chunks, merge_called,
               temp_dir_exists>>
merge_vars == <<temp_db_files, temp_store, final_db, merge_pc,
                first_valid_temp_db, total_rows_merged, merge_run>>
counter_vars == <<total_dockets_processed, counter_lock>>

\* ---- values --------------------------------------------------------------
NoKey == "no_key"
Pending == [kind |-> "pending"]
None == [kind |-> "None"]
temp_db_filename(worker_id) == [kind |-> "path", worker_id |-> worker_id]

Min(a, b) == IF a <= b THEN a ELSE b

\* ---- pure functions of the orchestrator ---------------------------------
RECURSIVE Contains(_, _)
Contains(s, x) == IF s = <<>> THEN FALSE
                  ELSE IF Head(s) = x THEN TRUE ELSE Contains(Tail(s), x)

\* list(dict.fromkeys(l)): keeps the first occurrence of every element
RECURSIVE DedupInto(_, _)
DedupInto(acc, l) ==
  IF l = <<>> THEN acc
  ELSE DedupInto(IF Contains(acc, Head(l)) THEN acc ELSE Append(acc, Head(l)),
                 Tail(l))

\* mutation of Dedup: the list is not deduplicated
DedupOmitted(l) == l

Dedup(l) == DedupInto(<<>>, l)

\* mutation of Slice: the slice takes one element too many
SliceTooLong(l, i, c) == SubSeq(l, i + 1, Min(i + c + 1, Len(l)))

\* l[i:i + c] with 0-based i
Slice(l, i, c) == SubSeq(l, i + 1, Min(i + c, Len(l)))

\* [l[i:i + c] for i in range(0, len(l), c)]
RECURSIVE ChunksFrom(_, _, _)
ChunksFrom(l, i, c) ==
  IF i >= Len(l) THEN <<>>
  ELSE <<Slice(l, i, c)>> \o ChunksFrom(l, i + c, c)

Chunks(l, c) == ChunksFrom(l, 0, c)

\* the tasks created so far, by worker_id
Workers == DOMAIN pc
docket_chunk(w) == docket_chunks[w + 1]

\* one line of a worker's log file
LogLine(ev, docket_id) == <<ev, docket_id>>

\* ---- values of the merge engine -----------------------------------------
\* a file that does not exist; a file of size 0
Missing == [kind |-> "missing"]
EmptyFile == [kind |-> "empty"]
\* merge_databases has not been invoked
MergeIdle ==
  /\ temp_db_files = <<>>
  /\ temp_store = <<>>
  /\ final_db = Missing
  /\ merge_pc = "idle"
  /\ first_valid_temp_db = 0
  /\ total_rows_merged = 0
  /\ merge_run = 0

\* ---- initial state -------------------------------------------------------
\* Docket ids and API keys are opaque strings that the program only compares
\* for equality, so every input list is a renaming of one whose distinct
\* values first occur in the order D1, D2, ... (K1, K2, ...).  Duplicates may
\* stand at any position.
FirstOccurrencesInOrder(l, order) ==
  \A i \in DOMAIN l :
    \E j \in 1..Min(Len(order), Cardinality({l[k] : k \in 1..(i - 1)}) + 1) :
      l[i] = order[j]

DocketLists == {l \in ListsUpTo(Units, MaxDockets) :
                  FirstOccurrencesInOrder(l, UnitOrder)}
KeyLists == {l \in ListsUpTo(Credentials, MaxKeys) :
               FirstOccurrencesInOrder(l, CredentialOrder)}

Init ==
  /\ docket_ids \in DocketLists
  /\ all_docket_ids = docket_ids
  /\ all_api_keys \in KeyLists
  /\ MAX_CONCURRENT_WORKERS \in ConfiguredMaxWorkers
  /\ DOCKETS_PER_TASK_CHUNK \in 1..MaxChunkSize
  /\ main_pc = "validate"
  /\ api_key_queue = <<>>
  /\ num_active_workers = 0
  /\ docket_chunks = <<>>
  /\ pc = <<>>
  /\ api_key = <<>>
  /\ idx = <<>>
  /\ temp_db_exists = <<>>
  /\ task_result = <<>>
  /\ log = <<>>
  /\ total_dockets_processed = 0
  /\ counter_lock = FALSE
  /\ valid_temp_db_files = <<>>
  /\ failed_chunks = <<>>
  /\ merge_called = FALSE
  /\ temp_dir_exists = FALSE
  /\ reported = <<>>
  /\ MergeIdle

\* ---- run_concurrent_downloading_main ------------------------------------
\* mutation of Validate: the docket list is not checked
ValidateKeysOnly ==
  /\ main_pc = "validate"
  /\ main_pc' = IF all_api_keys = <<>> THEN "returned" ELSE "fill_queue"
  /\ UNCHANGED <<reported, merge_vars, config_vars, temp_dir_exists, all_docket_ids,
                 api_key_queue, num_active_workers, docket_chunks, pc, api_key,
                 idx, temp_db_exists, task_result, log, counter_vars,
                 valid_temp_db_files, failed_chunks, merge_called>>

\* lines 234-243: fail fast on an empty key list or an empty docket list
Validate ==
  /\ main_pc = "validate"
  /\ main_pc' = IF all_api_keys = <<>> \/ all_docket_ids = <<>>
                THEN "returned" ELSE "fill_queue"
  /\ UNCHANGED <<reported, merge_vars, config_vars, temp_dir_exists, all_docket_ids, api_key_queue,
                 num_active_workers, docket_chunks, pc, api_key, idx,
                 temp_db_exists, task_result, log, counter_vars,
                 valid_temp_db_files, failed_chunks, merge_called>>

\* lines 242-253: create TEMP_DB_DIR, put every key in the queue, compute
\* num_active_workers
FillQueue ==
  /\ main_pc = "fill_queue"
  /\ api_key_queue' = api_key_queue \o all_api_keys
  /\ num_active_workers' = Min(MAX_CONCURRENT_WORKERS, Len(all_api_keys))
  /\ temp_dir_exists' = TRUE
  /\ main_pc' = "partition"
  /\ UNCHANGED <<reported, merge_vars, config_vars, all_docket_ids, docket_chunks, pc, api_key, idx,
                 temp_db_exists, task_result, log, counter_vars,
                 valid_temp_db_files, failed_chunks, merge_called>>

\* lines 255-260: deduplicate the dockets and slice them into chunks
Partition ==
  /\ main_pc = "partition"
  /\ all_docket_ids' = Dedup(all_docket_ids)
  /\ docket_chunks' = Chunks(all_docket_ids', DOCKETS_PER_TASK_CHUNK)
  /\ main_pc' = "spawn"
  /\ UNCHANGED <<reported, merge_vars, config_vars, temp_dir_exists, api_key_queue, num_active_workers, pc, api_key,
                 idx, temp_db_exists, task_result, log, counter_vars,
                 valid_temp_db_files, failed_chunks, merge_called>>

\* the tasks created by the loop of lines 265-268
SpawnedTasks(chunks) == 0..(Len(chunks) - 1)

\* lines 265-268: one task per chunk, worker_id = index of the chunk
Spawn ==
  /\ main_pc = "spawn"
  /\ pc' = [w \in SpawnedTasks(docket_chunks) |-> "start"]
  /\ api_key' = [w \in SpawnedTasks(docket_chunks) |-> NoKey]
  /\ idx' = [w \in SpawnedTasks(docket_chunks) |-> 0]
  /\ temp_db_exists' = [w \in SpawnedTasks(docket_chunks) |-> FALSE]
  /\ task_result' = [w \in SpawnedTasks(docket_chunks) |-> Pending]
  /\ log' = [w \in SpawnedTasks(docket_chunks) |-> <<>>]
  /\ main_pc' = "gather"
  /\ UNCHANGED <<reported, merge_vars, config_vars, temp_dir_exists, all_docket_ids, api_key_queue,
                 num_active_workers, docket_chunks, counter_vars,
                 valid_temp_db_files, failed_chunks, merge_called>>

\* mutation of Gather: gather returns as soon as one task has finished
GatherFirstCompleted ==
  /\ main_pc = "gather"
  /\ \E w \in Workers : pc[w] = "done"
  /\ main_pc' = "collect"
  /\ UNCHANGED <<reported, merge_vars, config_vars, temp_dir_exists, all_docket_ids,
                 api_key_queue, num_active_workers, docket_chunks, pc, api_key,
                 idx, temp_db_exists, task_result, log, counter_vars,
                 valid_temp_db_files, failed_chunks, merge_called>>

\* line 272: gather returns once every task has finished
Gather ==
  /\ main_pc = "gather"
  /\ \A w \in Workers : pc[w] = "done"
  /\ main_pc' = "collect"
  /\ UNCHANGED <<reported, merge_vars, config_vars, temp_dir_exists, all_docket_ids, api_key_queue,
                 num_active_workers, docket_chunks, pc, api_key, idx,
                 temp_db_exists, task_result, log, counter_vars,
                 valid_temp_db_files, failed_chunks, merge_called>>

\* mutation of ValidResults: the results after the first failure are dropped
RECURSIVE ValidResultsUntilFailure(_, _)
ValidResultsUntilFailure(results, i) ==
  IF i >= Len(docket_chunks) \/ results[i].kind # "path" THEN <<>>
  ELSE <<results[i]>> \o ValidResultsUntilFailure(results, i + 1)

\* lines 275-282: the results that are neither an exception nor None, in order
RECURSIVE ValidResults(_, _)
ValidResults(results, i) ==
  IF i >= Len(docket_chunks) THEN <<>>
  ELSE (IF results[i].kind = "path" THEN <<results[i]>> ELSE <<>>)
       \o ValidResults(results, i + 1)

RECURSIVE FailedResults(_, _)
FailedResults(results, i) ==
  IF i >= Len(docket_chunks) THEN <<>>
  ELSE (IF results[i].kind = "path" THEN <<>> ELSE <<i>>)
       \o FailedResults(results, i + 1)

\* lines 274-290 and 302: classify the results, merge when there is a valid
\* one, print total_dockets_processed
Collect ==
  /\ main_pc = "collect"
  /\ valid_temp_db_files' = ValidResults(task_result, 0)
  /\ failed_chunks' = FailedResults(task_result, 0)
  /\ merge_called' = (valid_temp_db_files' # <<>>)
  /\ reported' = Append(reported, total_dockets_processed)
  /\ main_pc' = "finished"
  /\ UNCHANGED <<merge_vars, config_vars, temp_dir_exists, all_docket_ids, api_key_queue,
                 num_active_workers, docket_chunks, pc, api_key, idx,
                 temp_db_exists, task_result, log, counter_vars>>

\* ---- process_docket_chunk -----------------------------------------------
\* A task moves between the points where the coroutine can be suspended:
\* "start" (await get), "try" (key held), "to_thread" (fetch running in a
\* thread), "lock_success"/"lock_except" (async with counter_lock),
\* "BANANA"/"BLUEBERRY" (inside the lock), "finally" (await put), "done".
worker_unchanged == <<reported, merge_vars, config_vars, main_vars>>

\* mutation of AcquireKey: the key is read but left in the queue
AcquireKeyPeek(w) ==
  /\ pc[w] = "start"
  /\ api_key_queue # <<>>
  /\ api_key' = [api_key EXCEPT ![w] = Head(api_key_queue)]
  /\ log' = [log EXCEPT ![w] = Append(@, LogLine("Acquired API key", ""))]
  /\ pc' = [pc EXCEPT ![w] = "try"]
  /\ UNCHANGED <<reported, merge_vars, config_vars, main_vars, api_key_queue, idx, temp_db_exists,
                 task_result, counter_vars>>

\* line 183: api_key = await api_key_queue.get(); suspends while the queue
\* is empty.  Lines 184-186 follow without suspension.
AcquireKey(w) ==
  /\ pc[w] = "start"
  /\ api_key_queue # <<>>
  /\ api_key' = [api_key EXCEPT ![w] = Head(api_key_queue)]
  /\ api_key_queue' = Tail(api_key_queue)
  /\ log' = [log EXCEPT ![w] = Append(@, LogLine("Acquired API key", ""))]
  /\ pc' = [pc EXCEPT ![w] = "try"]
  /\ UNCHANGED <<worker_unchanged, idx, temp_db_exists, task_result,
                 counter_vars>>

\* mutation of ForLoop: the chunk is gone through from its end
ForLoopReversed(w, i) ==
  IF i < Len(docket_chunk(w))
  THEN /\ log' = [log EXCEPT ![w] =
                    Append(@, LogLine("Processing docket",
                                      docket_chunk(w)[Len(docket_chunk(w)) - i]))]
       /\ pc' = [pc EXCEPT ![w] = "to_thread"]
       /\ UNCHANGED task_result
  ELSE /\ task_result' = [task_result EXCEPT ![w] = temp_db_filename(w)]
       /\ pc' = [pc EXCEPT ![w] = "finally"]
       /\ UNCHANGED log

\* lines 193-203 and 218, reached without suspension from line 191 and from
\* the end of the loop body: with i dockets done, either the fetch of the
\* next docket of the chunk starts in a thread, or the loop is over and the
\* task returns temp_db_filename
ForLoop(w, i) ==
  IF i < Len(docket_chunk(w))
  THEN /\ log' = [log EXCEPT ![w] =
                    Append(@, LogLine("Processing docket", docket_chunk(w)[i + 1]))]
       /\ pc' = [pc EXCEPT ![w] = "to_thread"]
       /\ UNCHANGED task_result
  ELSE /\ task_result' = [task_result EXCEPT ![w] = temp_db_filename(w)]
       /\ pc' = [pc EXCEPT ![w] = "finally"]
       /\ UNCHANGED log

\* line 191: the constructor of the collaborator returns, the loop starts
ConstructDownloader(w) ==
  /\ pc[w] = "try"
  /\ ForLoop(w, 0)
  /\ UNCHANGED <<worker_unchanged, api_key_queue, api_key, idx,
                 temp_db_exists, counter_vars>>

\* mutation of MajorError: the failure return leaves without the finally block
MajorErrorSkipsFinally(w) ==
  /\ pc[w] = "try"
  /\ log' = [log EXCEPT ![w] = Append(@, LogLine("Major error", ""))]
  /\ task_result' = [task_result EXCEPT ![w] = None]
  /\ pc' = [pc EXCEPT ![w] = "done"]
  /\ UNCHANGED <<reported, merge_vars, config_vars, main_vars, api_key_queue, api_key, idx,
                 temp_db_exists, counter_vars>>

\* lines 191, 219-221: the constructor raises; "Major error", return None
MajorError(w) ==
  /\ pc[w] = "try"
  /\ log' = [log EXCEPT ![w] = Append(@, LogLine("Major error", ""))]
  /\ task_result' = [task_result EXCEPT ![w] = None]
  /\ pc' = [pc EXCEPT ![w] = "finally"]
  /\ UNCHANGED <<worker_unchanged, api_key_queue, api_key, idx,
                 temp_db_exists, counter_vars>>

\* mutation of FetchReturns: every task writes to the database of task 0
FetchReturnsSharedStore(w) ==
  /\ pc[w] = "to_thread"
  /\ temp_db_exists' = [temp_db_exists EXCEPT ![0] = TRUE]
  /\ log' = [log EXCEPT ![w] =
               Append(@, LogLine("Successfully processed docket",
                                 docket_chunk(w)[idx[w] + 1]))]
  /\ pc' = [pc EXCEPT ![w] = "lock_success"]
  /\ UNCHANGED <<reported, merge_vars, config_vars, main_vars, api_key_queue, api_key,
                 idx, task_result, counter_vars>>

\* lines 198-204: gather_comments_by_docket returns; it has written the
\* docket's records to the temporary database
FetchReturns(w) ==
  /\ pc[w] = "to_thread"
  /\ temp_db_exists' = [temp_db_exists EXCEPT ![w] = TRUE]
  /\ log' = [log EXCEPT ![w] =
               Append(@, LogLine("Successfully processed docket",
                                 docket_chunk(w)[idx[w] + 1]))]
  /\ pc' = [pc EXCEPT ![w] = "lock_success"]
  /\ UNCHANGED <<worker_unchanged, api_key_queue, api_key, idx, task_result,
                 counter_vars>>

\* mutation of FetchRaises: the error of one docket ends the chunk
FetchRaisesAborts(w) ==
  /\ pc[w] = "to_thread"
  /\ \E created \in BOOLEAN :
       temp_db_exists' = [temp_db_exists EXCEPT ![w] = @ \/ created]
  /\ log' = [log EXCEPT ![w] =
               Append(@, LogLine("Error processing docket",
                                 docket_chunk(w)[idx[w] + 1]))]
  /\ task_result' = [task_result EXCEPT ![w] = None]
  /\ pc' = [pc EXCEPT ![w] = "finally"]
  /\ UNCHANGED <<reported, merge_vars, config_vars, main_vars, api_key_queue, api_key, idx,
                 counter_vars>>

\* lines 198-203, 210-211: gather_comments_by_docket raises, before or after
\* it created the temporary database file
FetchRaises(w) ==
  /\ pc[w] = "to_thread"
  /\ \E created \in BOOLEAN :
       temp_db_exists' = [temp_db_exists EXCEPT ![w] = @ \/ created]
  /\ log' = [log EXCEPT ![w] =
               Append(@, LogLine("Error processing docket",
                                 docket_chunk(w)[idx[w] + 1]))]
  /\ pc' = [pc EXCEPT ![w] = "lock_except"]
  /\ UNCHANGED <<worker_unchanged, api_key_queue, api_key, idx, task_result,
                 counter_vars>>

\* lines 206 and 213: async with counter_lock, entered when the lock is free
LockTarget(at) == IF at = "lock_success" THEN "BANANA" ELSE "BLUEBERRY"

AcquireCounterLock(w) ==
  /\ pc[w] \in {"lock_success", "lock_except"}
  /\ counter_lock = FALSE
  /\ counter_lock' = TRUE
  /\ pc' = [pc EXCEPT ![w] = LockTarget(pc[w])]
  /\ UNCHANGED <<worker_unchanged, api_key_queue, api_key, idx,
                 temp_db_exists, task_result, log, total_dockets_processed>>

\* mutation of Increment: failed dockets are not counted
IncrementSuccessOnly(at, n) == IF at = "BANANA" THEN n + 1 ELSE n

\* lines 208 and 215: total_dockets_processed += 1
Increment(at, n) == n + 1

\* lines 207-208 and 214-215, then the lock is released and the loop goes on
CountDocket(w) ==
  /\ pc[w] \in {"BANANA", "BLUEBERRY"}
  /\ total_dockets_processed' = Increment(pc[w], total_dockets_processed)
  /\ counter_lock' = FALSE
  /\ idx' = [idx EXCEPT ![w] = @ + 1]
  /\ ForLoop(w, idx[w] + 1)
  /\ UNCHANGED <<worker_unchanged, api_key_queue, api_key, temp_db_exists>>

\* mutations of PutKey: the key is put back twice; the key is not put back
PutKeyTwice(queue, key) == Append(Append(queue, key), key)
PutKeyDropped(queue, key) == queue

\* line 223: the queue after api_key_queue.put(api_key)
PutKey(queue, key) == Append(queue, key)

\* lines 222-225: the key goes back to the queue, the task is finished
ReleaseKey(w) ==
  /\ pc[w] = "finally"
  /\ api_key_queue' = PutKey(api_key_queue, api_key[w])
  /\ api_key' = [api_key EXCEPT ![w] = NoKey]
  /\ log' = [log EXCEPT ![w] = Append(@, LogLine("Released API key", ""))]
  /\ pc' = [pc EXCEPT ![w] = "done"]
  /\ UNCHANGED <<worker_unchanged, idx, temp_db_exists, task_result,
                 counter_vars>>

Next ==
  \/ Validate
  \/ FillQueue
  \/ Partition
  \/ Spawn
  \/ Gather
  \/ Collect
  \/ \E w \in Workers : AcquireKey(w)
  \/ \E w \in Workers : ConstructDownloader(w)
  \/ \E w \in Workers : MajorError(w)
  \/ \E w \in Workers : FetchReturns(w)
  \/ \E w \in Workers : FetchRaises(w)
  \/ \E w \in Workers : AcquireCounterLock(w)
  \/ \E w \in Workers : CountDocket(w)
  \/ \E w \in Workers : ReleaseKey(w)

Spec == Init /\ [][Next]_vars

\* the fetch calls return or raise, the event loop runs every ready task
FairSpec == Spec /\ WF_vars(Next)

TypeOK ==
  /\ main_pc \in {"validate", "returned", "fill_queue", "partition", "spawn",
                  "gather", "collect", "finished"}
  /\ \A w \in Workers :
       /\ pc[w] \in {"start", "try", "to_thread", "lock_success",
                     "lock_except", "BANANA", "BLUEBERRY", "finally", "done"}
       /\ api_key[w] \in Credentials \cup {NoKey}
       /\ idx[w] \in 0..Len(docket_chunk(w))
  /\ total_dockets_processed \in Nat
  /\ counter_lock \in BOOLEAN

\* ---- several runs in one process ------------------------------------------
\* the first run, with the configuration of lines 45 and 47
RunsInit ==
  /\ Init
  /\ Len(docket_ids) <= MaxRunDockets
  /\ MAX_CONCURRENT_WORKERS = 200
  /\ DOCKETS_PER_TASK_CHUNK = 1

\* mutation of RunAgain: the counter starts at 0 in every run
RunAgainResetsCounter ==
  /\ main_pc \in {"returned", "finished"}
  /\ Len(reported) < MaxRuns
  /\ main_pc' = "validate"
  /\ all_docket_ids' = docket_ids
  /\ api_key_queue' = <<>>
  /\ num_active_workers' = 0
  /\ docket_chunks' = <<>>
  /\ pc' = <<>>
  /\ api_key' = <<>>
  /\ idx' = <<>>
  /\ temp_db_exists' = <<>>
  /\ task_result' = <<>>
  /\ log' = <<>>
  /\ valid_temp_db_files' = <<>>
  /\ failed_chunks' = <<>>
  /\ merge_called' = FALSE
  /\ total_dockets_processed' = 0
  /\ UNCHANGED <<reported, merge_vars, config_vars, temp_dir_exists,
                 counter_lock>>

\* lines 228-232 and 171-173: run_concurrent_downloading_main is called
\* again in the same process with the same arguments; its locals are new,
\* the module globals total_dockets_processed and counter_lock are not
\* initialised again
RunAgain ==
  /\ main_pc \in {"returned", "finished"}
  /\ Len(reported) < MaxRuns
  /\ main_pc' = "validate"
  /\ all_docket_ids' = docket_ids
  /\ api_key_queue' = <<>>
  /\ num_active_workers' = 0
  /\ docket_chunks' = <<>>
  /\ pc' = <<>>
  /\ api_key' = <<>>
  /\ idx' = <<>>
  /\ temp_db_exists' = <<>>
  /\ task_result' = <<>>
  /\ log' = <<>>
  /\ valid_temp_db_files' = <<>>
  /\ failed_chunks' = <<>>
  /\ merge_called' = FALSE
  /\ UNCHANGED <<reported, merge_vars, config_vars, temp_dir_exists,
                 counter_vars>>

RunsNext ==
  \/ Validate
  \/ FillQueue
  \/ Partition
  \/ Spawn
  \/ Gather
  \/ Collect
  \/ \E w \in Workers : AcquireKey(w)
  \/ \E w \in Workers : ConstructDownloader(w)
  \/ \E w \in Workers : MajorError(w)
  \/ \E w \in Workers : FetchReturns(w)
  \/ \E w \in Workers : FetchRaises(w)
  \/ \E w \in Workers : AcquireCounterLock(w)
  \/ \E w \in Workers : CountDocket(w)
  \/ \E w \in Workers : ReleaseKey(w)
  \/ RunAgain

RunsSpec == RunsInit /\ [][RunsNext]_vars

\* ---- helpers of the properties -------------------------------------------
AllDone == \A w \in Workers : pc[w] = "done"
PoolCreated == main_pc \in {"partition", "spawn", "gather", "collect", "finished"}

\* number of occurrences of x in the sequence s
CountIn(s, x) == Cardinality({i \in DOMAIN s : s[i] = x})
\* number of tasks that hold the key x
HeldBy(x) == Cardinality({w \in Workers : api_key[w] = x})
Holding(w) == api_key[w] # NoKey
\* the PROCESSING state of a task: after the acquisition, before the release
Processing(w) ==
  pc[w] \in {"try", "to_thread", "lock_success", "lock_except",
             "BANANA", "BLUEBERRY"}
NumProcessing == Cardinality({w \in Workers : Processing(w)})

\* C1: at no instant is the same credential value held by two worker tasks,
\* for any configured credential list.
C1_CredentialExclusive ==
  \A v \in Workers : \A w \in Workers :
    (v # w /\ Holding(v)) => api_key[v] # api_key[w]

\* C2: once the pool is filled, for every credential value the number of its
\* copies available in the queue plus the number held by tasks equals the
\* number configured, and the queue is never longer than the configured list.
C2_PoolConservation ==
  PoolCreated =>
    /\ \A c \in Credentials :
         CountIn(api_key_queue, c) + HeldBy(c) = CountIn(all_api_keys, c)
    /\ Len(api_key_queue) <= Len(all_api_keys)

\* C2 witness: a key is checked out while another is available.
C2_Witness ==
  /\ \E w \in Workers : Holding(w)
  /\ api_key_queue # <<>>
  /\ \E w \in Workers : pc[w] = "done"

\* the docket ids of the lines of worker w's log that record the event ev
LinesOf(w, ev) == SelectSeq(log[w], LAMBDA line : line[1] = ev)
DocketsOf(w, ev) == [i \in DOMAIN LinesOf(w, ev) |-> LinesOf(w, ev)[i][2]]
Attempted(w) == DocketsOf(w, "Processing docket")
Succeeded(w) == DocketsOf(w, "Successfully processed docket")
Failed(w) == DocketsOf(w, "Error processing docket")
Range(s) == {s[i] : i \in DOMAIN s}

RECURSIVE SumOver(_, _)
SumOver(S, f) ==
  IF S = {} THEN 0
  ELSE LET x == CHOOSE y \in S : TRUE IN f[x] + SumOver(S \ {x}, f)

\* C3: a task that acquired a key puts that same key back on every exit
\* path, and once all tasks have terminated the queue holds every configured
\* key.
C3_ReleaseOnEveryExit ==
  /\ [](\A w \in Workers : pc[w] = "done" => ~Holding(w))
  /\ []((Workers # {} /\ AllDone) =>
         \A c \in Credentials :
           CountIn(api_key_queue, c) = CountIn(all_api_keys, c))
  /\ [][\A w \in Workers :
          (pc[w] # "done" /\ pc'[w] = "done") =>
            /\ Holding(w)
            /\ api_key_queue' = Append(api_key_queue, api_key[w])]_vars

\* C3 witness: all tasks are over, one after a major error raised after the
\* acquisition, one after a per-docket failure, one normally.
C3_Witness ==
  /\ AllDone
  /\ \E w \in Workers : task_result[w] = None
  /\ \E w \in Workers : task_result[w] # None /\ Failed(w) # <<>>
  /\ \E w \in Workers : task_result[w] # None /\ Failed(w) = <<>>

\* C4: the number of tasks in the PROCESSING state never exceeds the number
\* of configured API keys.
C4_ProcessingBoundedByKeys ==
  PoolCreated => NumProcessing <= Len(all_api_keys)

\* C4 witness: more tasks than keys, every key is in use and a task waits.
C4_Witness ==
  /\ Len(all_api_keys) >= 2
  /\ NumProcessing = Len(all_api_keys)
  /\ \E w \in Workers : pc[w] = "start"

\* C5: at no instant are more than min(MAX_CONCURRENT_WORKERS, number of
\* keys) tasks processing dockets.
C5_EffectiveConcurrency ==
  PoolCreated => NumProcessing <= Min(MAX_CONCURRENT_WORKERS, Len(all_api_keys))

\* C6: under fair scheduling, with fetch calls that return or raise, every
\* spawned task acquires a key and terminates, and the orchestrator passes
\* the gather point.
C6_EveryWorkerTerminates ==
  (main_pc = "gather") ~>
    (/\ main_pc = "finished"
     /\ \A w \in Workers :
          pc[w] = "done" /\ LinesOf(w, "Acquired API key") # <<>>)

\* C6 witness: a run with more chunks than keys is over.
C6_Witness ==
  /\ main_pc = "finished"
  /\ Len(docket_chunks) > Len(all_api_keys)

\* C7: when the fetch of a docket raises, every docket of the chunk is still
\* attempted, in order, and the task returns its database path, not None.
C7_UnitIsolation ==
  \A w \in Workers :
    (pc[w] \in {"finally", "done"} /\ Failed(w) # <<>>) =>
      /\ Attempted(w) = docket_chunk(w)
      /\ task_result[w] = temp_db_filename(w)

\* C7 witness: the first docket of a chunk of two failed, the second one was
\* fetched and recorded as successful.
C7_Witness ==
  \E w \in Workers :
    /\ pc[w] = "done"
    /\ Len(docket_chunk(w)) = 2
    /\ Failed(w) = <<docket_chunk(w)[1]>>
    /\ Succeeded(w) = <<docket_chunk(w)[2]>>

\* tasks whose last fetch outcome is not counted yet
AwaitingCount(w) ==
  IF pc[w] \in {"lock_success", "lock_except", "BANANA", "BLUEBERRY"}
  THEN 1 ELSE 0
InCounterLock == {w \in Workers : pc[w] \in {"BANANA", "BLUEBERRY"}}

\* C8: the counter is incremented once per fetch outcome, success or
\* failure, only by the task that holds counter_lock; once all tasks are over
\* it equals the number of fetches attempted.
C8_CounterExact ==
  /\ [](total_dockets_processed =
          SumOver(Workers, [w \in Workers |->
            Len(Succeeded(w)) + Len(Failed(w)) - AwaitingCount(w)]))
  /\ [](Cardinality(InCounterLock) <= 1 /\ (counter_lock <=> InCounterLock # {}))
  /\ [](AllDone =>
          total_dockets_processed =
            SumOver(Workers, [w \in Workers |-> Len(Attempted(w))]))
  /\ [][total_dockets_processed' # total_dockets_processed =>
          /\ total_dockets_processed' = total_dockets_processed + 1
          /\ counter_lock]_vars

\* C8 witness: dockets D1, D2, D3 in chunks of one, two keys, the fetch of
\* D2 failed, the others succeeded, and the counter is 3.
C8_Witness ==
  /\ docket_ids = <<"D1", "D2", "D3">>
  /\ all_api_keys = <<"K1", "K2">>
  /\ DOCKETS_PER_TASK_CHUNK = 1
  /\ main_pc = "finished"
  /\ Succeeded(0) = <<"D1">> /\ Failed(1) = <<"D2">> /\ Succeeded(2) = <<"D3">>
  /\ total_dockets_processed = 3

\* C9: a task returns its database path only if the database was created; a
\* task without a database yields None.  With D1, D2, D3 in chunks of one and
\* the fetch of D2 failing without creating a database, two results are valid
\* and one is a failure.
C9_SuccessOnlyIfStoreCreated ==
  /\ \A w \in Workers :
       pc[w] = "done" => (task_result[w] = temp_db_filename(w) <=> temp_db_exists[w])
  /\ (/\ main_pc = "finished"
      /\ docket_ids = <<"D1", "D2", "D3">>
      /\ DOCKETS_PER_TASK_CHUNK = 1
      /\ Succeeded(0) = <<"D1">> /\ Failed(1) = <<"D2">> /\ Succeeded(2) = <<"D3">>
      /\ ~temp_db_exists[1])
     => (Len(valid_temp_db_files) = 2 /\ Len(failed_chunks) = 1)

RECURSIVE Flatten(_)
Flatten(ss) == IF ss = <<>> THEN <<>> ELSE Head(ss) \o Flatten(Tail(ss))
Partitioned == main_pc \in {"spawn", "gather", "collect", "finished"}
Spawned == main_pc \in {"gather", "collect", "finished"}

\* C10: the chunks partition the set of the input dockets: their union is
\* that set, no docket occurs twice, and there is exactly one task per chunk,
\* which fetches dockets of its own chunk only.
C10_ChunksPartitionInput ==
  /\ Partitioned =>
       /\ Range(Flatten(docket_chunks)) = Range(docket_ids)
       /\ Len(Flatten(docket_chunks)) = Cardinality(Range(docket_ids))
  /\ Spawned =>
       /\ Workers = 0..(Len(docket_chunks) - 1)
       /\ \A w \in Workers : Range(Attempted(w)) \subseteq Range(docket_chunk(w))

\* C10 witness: an input with a repeated docket was split into several
\* chunks and the run is over.
C10_Witness ==
  /\ main_pc = "finished"
  /\ Len(docket_ids) > Cardinality(Range(docket_ids))
  /\ Len(docket_chunks) >= 2
  /\ \A w \in Workers : Attempted(w) = docket_chunk(w)

\* position of the first occurrence of x in l
FirstIndex(l, x) == CHOOSE i \in DOMAIN l : l[i] = x /\ \A j \in 1..(i - 1) : l[j] # x
\* r is l with all but the first occurrence of every element removed
IsFirstOccurrences(r, l) ==
  /\ Range(r) = Range(l)
  /\ Len(r) = Cardinality(Range(l))
  /\ \A a \in DOMAIN r : \A b \in DOMAIN r :
       a < b => FirstIndex(l, r[a]) < FirstIndex(l, r[b])

\* C11: every chunk is non-empty and has at most DOCKETS_PER_TASK_CHUNK
\* dockets, every chunk but the last has exactly that many, and the chunks
\* concatenated in order are the input list without the repeated occurrences.
C11_ChunkShape ==
  Partitioned =>
    /\ \A k \in DOMAIN docket_chunks :
         /\ Len(docket_chunks[k]) >= 1
         /\ Len(docket_chunks[k]) <= DOCKETS_PER_TASK_CHUNK
         /\ k < Len(docket_chunks) =>
              Len(docket_chunks[k]) = DOCKETS_PER_TASK_CHUNK
    /\ IsFirstOccurrences(Flatten(docket_chunks), docket_ids)

\* C11 witness: three dockets in chunks of two, the last chunk is shorter.
C11_Witness ==
  /\ Partitioned
  /\ DOCKETS_PER_TASK_CHUNK = 2
  /\ Len(docket_chunks) = 2
  /\ Len(docket_chunks[2]) = 1
  /\ docket_chunks[1] = <<"D1", "D2">>

\* C12: with an empty key list or an empty docket list the orchestrator
\* returns before any work: the queue is not filled, no task is spawned, the
\* counter is unchanged, TEMP_DB_DIR and the final database are not created.
C12_FailFast ==
  (all_api_keys = <<>> \/ docket_ids = <<>>) =>
    /\ main_pc \in {"validate", "returned"}
    /\ api_key_queue = <<>>
    /\ Workers = {}
    /\ total_dockets_processed = 0
    /\ ~temp_dir_exists
    /\ ~merge_called
    /\ final_db = Missing

\* C12 witness: the orchestrator has returned on an empty docket list with
\* keys configured.
C12_Witness ==
  /\ main_pc = "returned"
  /\ docket_ids = <<>>
  /\ all_api_keys # <<>>

\* C13: merge_databases, the only code that opens the final database, is
\* invoked only after gather has returned with every spawned task finished.
C13_MergeAfterAllTasks ==
  /\ merge_called => (main_pc = "finished" /\ AllDone)
  /\ main_pc \in {"collect", "finished"} => AllDone
  /\ (\E w \in Workers : pc[w] # "done") => ~merge_called

\* C13 witness: merge_databases was invoked in a run of several tasks.
C13_Witness ==
  /\ merge_called
  /\ Len(docket_chunks) >= 2
  /\ AllDone

\* the worker ids in s are strictly increasing
Increasing(s) == \A a \in DOMAIN s : \A b \in DOMAIN s : a < b => s[a] < s[b]
FailedWorkers == {w \in Workers : task_result[w] = None}

SomeStoreExists == \E w \in Workers : temp_db_exists[w]

\* C15: merge_databases is invoked if and only if at least one temporary
\* database exists; when no task produced a database the run ends without
\* the final database being created or opened.
C15_MergeIffStoreExists ==
  main_pc = "finished" => (merge_called <=> SomeStoreExists)

\* ---- merge_databases ------------------------------------------------------
\* lines 35-42: the tables to merge (the first two of the six configured)
TABLES_TO_MERGE == <<"comments_detail", "comments_header">>
Tables == {TABLES_TO_MERGE[k] : k \in DOMAIN TABLES_TO_MERGE}
\* the primary keys of the rows
PKs == {"r1", "r2"}
\* a file that is not empty and is not a database: every query of it raises
\* sqlite3.Error
Corrupt == [kind |-> "corrupt"]
\* a database: tables maps the name of each of its tables to its rows
Database(tables) == [kind |-> "db", tables |-> tables]
\* the rows of origin o with the keys ks; a row of a temporary database has
\* the index of the database as origin, a row that the final database held
\* before the merge has origin 0
RowsOf(ks, o) == [pk \in ks |-> o]
\* the databases whose tables all hold rows with the same keys
Databases(o) ==
  {Database([t \in ts |-> RowsOf(ks, o)]) :
     ts \in SUBSET Tables \ {{}}, ks \in SUBSET PKs} \cup {Database(<<>>)}
TempStoreStates(i) == {Missing, EmptyFile, Corrupt} \cup Databases(i)
FinalDbStates == {Missing} \cup Databases(0)

\* the tables of a file: none unless it is a database
TablesOf(f) == IF f.kind = "db" THEN f.tables ELSE <<>>
HasTable(f, t) == t \in DOMAIN TablesOf(f)
\* the keys of the rows of table t of a file
KeysOf(f, t) == IF HasTable(f, t) THEN DOMAIN f.tables[t] ELSE {}

\* lines 58 and 110: the file exists and its size is not 0
IsValid(f) == f.kind \notin {"missing", "empty"}
\* line 58: the first valid file of the list, 0 for None
FirstValid ==
  IF \E k \in DOMAIN temp_db_files : IsValid(temp_store[temp_db_files[k]])
  THEN temp_db_files[CHOOSE k \in DOMAIN temp_db_files :
         /\ IsValid(temp_store[temp_db_files[k]])
         /\ \A j \in 1..(k - 1) : ~IsValid(temp_store[temp_db_files[j]])]
  ELSE 0

\* line 55: sqlite3.connect creates the final database when it is missing
Connect(f) == IF f.kind = "missing" THEN Database(<<>>) ELSE f

\* merge_databases is invoked with a list of temporary databases; the
\* orchestrator is at rest
MergeInit ==
  /\ docket_ids = <<>>
  /\ all_docket_ids = <<>>
  /\ all_api_keys = <<>>
  /\ MAX_CONCURRENT_WORKERS = 200
  /\ DOCKETS_PER_TASK_CHUNK = 1
  /\ main_pc = "validate"
  /\ api_key_queue = <<>>
  /\ num_active_workers = 0
  /\ docket_chunks = <<>>
  /\ pc = <<>>
  /\ api_key = <<>>
  /\ idx = <<>>
  /\ temp_db_exists = <<>>
  /\ task_result = <<>>
  /\ log = <<>>
  /\ total_dockets_processed = 0
  /\ counter_lock = FALSE
  /\ valid_temp_db_files = <<>>
  /\ failed_chunks = <<>>
  /\ merge_called = FALSE
  /\ temp_dir_exists = FALSE
  /\ reported = <<>>
  /\ \E n \in 1..MaxStores :
       /\ temp_db_files = [k \in 1..n |-> k]
       /\ temp_store \in {f \in [1..n -> UNION {TempStoreStates(i) : i \in 1..n}] :
                            \A i \in 1..n : f[i] \in TempStoreStates(i)}
  /\ final_db \in FinalDbStates
  /\ merge_pc = "called"
  /\ first_valid_temp_db = 0
  /\ total_rows_merged = 0
  /\ merge_run = 1

merge_unchanged == <<reported, config_vars, main_vars, api_key_queue, pc, api_key, idx,
                     temp_db_exists, task_result, log, counter_vars>>

\* mutation of AbortMerge: the abort removes the temporary files
AbortMergeCleansUp ==
  /\ merge_pc = "called"
  /\ FirstValid = 0
  /\ final_db' = Connect(final_db)
  /\ first_valid_temp_db' = 0
  /\ merge_pc' = "aborted"
  /\ temp_store' = [i \in DOMAIN temp_store |-> Missing]
  /\ UNCHANGED <<merge_unchanged, temp_db_files, total_rows_merged, merge_run>>

\* lines 52-63: connect to the final database; no file of the list is valid:
\* abort
AbortMerge ==
  /\ merge_pc = "called"
  /\ FirstValid = 0
  /\ final_db' = Connect(final_db)
  /\ first_valid_temp_db' = 0
  /\ merge_pc' = "aborted"
  /\ UNCHANGED <<merge_unchanged, temp_db_files, temp_store,
                 total_rows_merged, merge_run>>

\* lines 52-60: connect to the final database; the first valid file of the
\* list is the source of the schemas
SelectSchemaSource ==
  /\ merge_pc = "called"
  /\ FirstValid # 0
  /\ final_db' = Connect(final_db)
  /\ first_valid_temp_db' = FirstValid
  /\ merge_pc' = "schema"
  /\ UNCHANGED <<merge_unchanged, temp_db_files, temp_store,
                 total_rows_merged, merge_run>>

\* lines 65-103: the tables of the final database after CREATE TABLE IF NOT
\* EXISTS for every table of the list that the source of the schemas has
CreatedTables(final, source) ==
  [t \in DOMAIN final.tables \cup {u \in Tables : HasTable(source, u)} |->
     IF t \in DOMAIN final.tables THEN final.tables[t] ELSE <<>>]

\* lines 65-103: the schema loop
CreateTables ==
  /\ merge_pc = "schema"
  /\ final_db' = Database(CreatedTables(final_db, temp_store[first_valid_temp_db]))
  /\ merge_pc' = "data"
  /\ UNCHANGED <<merge_unchanged, temp_db_files, temp_store,
                 first_valid_temp_db, total_rows_merged, merge_run>>

\* mutation of InsertOrIgnore: INSERT OR REPLACE
InsertOrReplace(rows, ks, i) ==
  [pk \in DOMAIN rows \cup ks |-> IF pk \in ks THEN i ELSE rows[pk]]

\* lines 127-136: INSERT OR IGNORE of the rows with the keys ks of database i
InsertOrIgnore(rows, ks, i) ==
  [pk \in DOMAIN rows \cup ks |-> IF pk \in DOMAIN rows THEN rows[pk] ELSE i]

\* lines 109-140: the rows of table t of the final database after the rows
\* of the files k.. of the list have been inserted
RECURSIVE InsertFrom(_, _, _)
InsertFrom(rows, t, k) ==
  IF k > Len(temp_db_files) THEN rows
  ELSE InsertFrom(InsertOrIgnore(rows, KeysOf(temp_store[temp_db_files[k]], t),
                                 temp_db_files[k]), t, k + 1)

\* lines 105-142: the tables of the final database after the data loop; the
\* insertion into a table that the final database lacks raises sqlite3.Error
\* and the row is passed over
MergedTables(final) ==
  [t \in DOMAIN final.tables |->
     IF t \in Tables THEN InsertFrom(final.tables[t], t, 1) ELSE final.tables[t]]

\* the number of rows of a database
RECURSIVE RowCount(_, _)
RowCount(tables, ts) ==
  IF ts = {} THEN 0
  ELSE LET t == CHOOSE u \in ts : TRUE
       IN  Cardinality(DOMAIN tables[t]) + RowCount(tables, ts \ {t})

\* lines 105-142: the data loop
MergeData ==
  /\ merge_pc = "data"
  /\ final_db' = Database(MergedTables(final_db))
  /\ total_rows_merged' = RowCount(final_db'.tables, DOMAIN final_db'.tables)
                            - RowCount(final_db.tables, DOMAIN final_db.tables)
  /\ merge_pc' = "cleanup"
  /\ UNCHANGED <<merge_unchanged, temp_db_files, temp_store,
                 first_valid_temp_db, merge_run>>

\* lines 144-167: every file of the list that exists is removed, unless
\* os.remove raises OSError; the final count only reads
Cleanup ==
  /\ merge_pc = "cleanup"
  /\ \E kept \in SUBSET {i \in DOMAIN temp_store : temp_store[i] # Missing} :
       temp_store' = [i \in DOMAIN temp_store |->
                        IF i \in kept THEN temp_store[i] ELSE Missing]
  /\ merge_pc' = "returned"
  /\ UNCHANGED <<merge_unchanged, temp_db_files, final_db,
                 first_valid_temp_db, total_rows_merged, merge_run>>

\* line 51: merge_databases is invoked again with the same list and the same
\* final database
MergeAgain ==
  /\ merge_pc \in {"aborted", "returned"}
  /\ merge_run = 1
  /\ merge_run' = 2
  /\ merge_pc' = "called"
  /\ first_valid_temp_db' = 0
  /\ total_rows_merged' = 0
  /\ UNCHANGED <<merge_unchanged, temp_db_files, temp_store, final_db>>

MergeNext ==
  \/ AbortMerge
  \/ SelectSchemaSource
  \/ CreateTables
  \/ MergeData
  \/ Cleanup
  \/ MergeAgain

MergeSpec == MergeInit /\ [][MergeNext]_vars

\* ---- properties of merge_databases ----------------------------------------
\* the valid files of the list
ValidStores == {i \in DOMAIN temp_store : IsValid(temp_store[i])}
\* the keys of the rows of table t of the final database
FinalKeys(t) == KeysOf(final_db, t)
\* the keys that the listed valid databases hold for table t
StoreKeys(t) == UNION {KeysOf(temp_store[i], t) : i \in ValidStores}

\* C16: once the schema loop is over, every table of the list that some
\* valid listed database contains exists in the final database, also when
\* the first database of the list lacks it.
C16_SchemaSourceFallback ==
  merge_pc = "data" =>
    \A t \in Tables :
      (\E i \in ValidStores : HasTable(temp_store[i], t)) => HasTable(final_db, t)

\* C17: the data loop leaves in every table of the list exactly the union,
\* by primary key, of the rows the final database held and the rows of all
\* valid listed databases.
C17_MergeIsUnion ==
  [][(merge_pc = "data" /\ merge_pc' = "cleanup") =>
       \A t \in Tables :
         KeysOf(final_db', t) = FinalKeys(t) \cup StoreKeys(t)]_vars

\* C18: a second run of merge_databases with the same list and the same
\* final database adds no row and leaves the rows of every table as the
\* first run left them.
C18_MergeIdempotent ==
  [][(merge_run = 2 /\ merge_run' = 2) =>
       /\ \A t \in Tables : KeysOf(final_db', t) = FinalKeys(t)
       /\ total_rows_merged' = 0]_vars

\* every row of every table of the list in file i is in the final database
Merged(i) ==
  /\ temp_store[i].kind \in {"empty", "db"}
  /\ \A t \in Tables : KeysOf(temp_store[i], t) \subseteq FinalKeys(t)

\* C19: the cleanup removes a temporary file only if all its rows are in
\* the final database; a file whose data could not be merged stays.
C19_DeleteOnlyMerged ==
  [][merge_pc = "cleanup" =>
       \A i \in DOMAIN temp_store :
         (temp_store[i] # Missing /\ temp_store'[i] = Missing) => Merged(i)]_vars

\* C20: when every listed file is missing or empty, merge_databases aborts:
\* it creates no table, inserts no row and removes no file, and nothing
\* happens after the abort.
C20_AbortLeavesAll ==
  [][/\ (merge_pc = "called" /\ FirstValid = 0) =>
          /\ merge_pc' = "aborted"
          /\ temp_store' = temp_store
          /\ TablesOf(final_db') = TablesOf(final_db)
          /\ total_rows_merged' = 0
     /\ merge_pc = "aborted" =>
          /\ merge_pc' \in {"aborted", "called"}
          /\ temp_store' = temp_store
          /\ final_db' = final_db]_vars

\* C20 witness: the merge aborted on a list with an empty file, which is
\* still there, and the final database has the table and the rows it had.
C20_Witness ==
  /\ merge_pc = "aborted"
  /\ merge_run = 1
  /\ \E i \in DOMAIN temp_store : temp_store[i] = EmptyFile
  /\ \E t \in Tables : FinalKeys(t) = PKs

\* the positions in the list of the valid databases that hold key pk in
\* table t
Holders(t, pk) ==
  {k \in DOMAIN temp_db_files :
     /\ IsValid(temp_store[temp_db_files[k]])
     /\ pk \in KeysOf(temp_store[temp_db_files[k]], t)}

\* C21: no step of merge_databases removes or overwrites a row of the final
\* database, and a row that the data loop inserts comes from the earliest
\* database of the list that holds its primary key.
C21_FirstWriterWins ==
  [][/\ \A t \in DOMAIN TablesOf(final_db) :
          /\ HasTable(final_db', t)
          /\ \A pk \in FinalKeys(t) :
               /\ pk \in KeysOf(final_db', t)
               /\ final_db'.tables[t][pk] = final_db.tables[t][pk]
     /\ merge_pc = "data" =>
          \A t \in DOMAIN TablesOf(final_db') :
            \A pk \in KeysOf(final_db', t) \ FinalKeys(t) :
              /\ Holders(t, pk) # {}
              /\ \E k \in Holders(t, pk) :
                   /\ \A j \in Holders(t, pk) : k <= j
                   /\ final_db'.tables[t][pk] = temp_db_files[k]]_vars

\* C21 witness: after the data loop a key held by both databases of the list
\* has the row of the first one, and a key the final database already held
\* and the first database holds too has kept its row.
C21_Witness ==
  /\ merge_pc = "cleanup"
  /\ Len(temp_db_files) >= 2
  /\ \E t \in Tables : \E pk \in FinalKeys(t) : \E old \in FinalKeys(t) :
       /\ final_db.tables[t][pk] = 1
       /\ pk \in KeysOf(temp_store[2], t)
       /\ final_db.tables[t][old] = 0
       /\ old \in KeysOf(temp_store[1], t)

\* the lines of worker w's log about its dockets, in the order written
FetchEvents(w) ==
  SelectSeq(log[w], LAMBDA line :
    line[1] \in {"Processing docket", "Successfully processed docket",
                 "Error processing docket"})
\* whether worker w has a fetch in flight
Fetching(w) == pc[w] = "to_thread"

\* the dockets of a chunk are fetched in chunk order, and a fetch starts only
\* after the fetch before it has returned or raised
InChunkOrderOneAtATime(w) ==
  /\ \A k \in DOMAIN FetchEvents(w) :
       IF k % 2 = 1
       THEN FetchEvents(w)[k] =
              LogLine("Processing docket", docket_chunk(w)[(k + 1) \div 2])
       ELSE FetchEvents(w)[k][1] # "Processing docket"
            /\ FetchEvents(w)[k][2] = docket_chunk(w)[k \div 2]
  /\ Fetching(w) <=> Len(FetchEvents(w)) % 2 = 1
  /\ Len(FetchEvents(w)) <= 2 * Len(docket_chunk(w))

\* C22: every task fetches the dockets of its chunk in chunk order and one
\* at a time: a fetch starts only after the one before it has returned or
\* raised, a task with a fetch in flight holds a key, and there are never
\* more fetches in flight than keys held.
C22_SequentialInTask ==
  /\ \A w \in Workers : InChunkOrderOneAtATime(w) /\ (Fetching(w) => Holding(w))
  /\ PoolCreated =>
       Cardinality({w \in Workers : Fetching(w)})
         <= Len(all_api_keys) - Len(api_key_queue)

\* C22 witness: a task fetches the second docket of its chunk after the fetch
\* of the first one has raised.
C22_Witness ==
  \E w \in Workers :
    /\ Fetching(w)
    /\ Len(FetchEvents(w)) = 3
    /\ Failed(w) = <<docket_chunk(w)[1]>>

\* C23: the tasks of a run have distinct temporary databases, a task returns
\* the path of its own, and a step that writes a temporary database is the
\* end of a fetch of the task it belongs to, and writes no other.
C23_StoreOwnedByOneTask ==
  /\ [](\A v \in Workers : \A w \in Workers :
          /\ v # w => temp_db_filename(v) # temp_db_filename(w)
          /\ task_result[w].kind = "path" => task_result[w] = temp_db_filename(w))
  /\ [][\A v \in Workers :
          (v \in DOMAIN temp_db_exists' /\ temp_db_exists'[v] # temp_db_exists[v]) =>
            /\ Fetching(v)
            /\ pc'[v] # pc[v]
            /\ \A u \in Workers \ {v} : temp_db_exists'[u] = temp_db_exists[u]]_vars

\* C23 witness: two tasks are running, each has written its own database.
C23_Witness ==
  \E v \in Workers : \E w \in Workers :
    /\ v # w
    /\ temp_db_exists[v] /\ temp_db_exists[w]
    /\ Fetching(v)
    /\ Processing(w)
    /\ Succeeded(v) # <<>> /\ Succeeded(w) # <<>>

\* the fetches of the current run that have been counted
CountedThisRun ==
  SumOver(Workers, [w \in Workers |->
    Len(Succeeded(w)) + Len(Failed(w)) - AwaitingCount(w)])
\* the total printed by the run before the current one, 0 in the first run
PreviousReport(r) == IF Len(r) >= 2 THEN r[Len(r) - 1] ELSE 0

\* C24: total_dockets_processed never decreases and is not reset by a new
\* run; the total a run prints at its end is the total the run before it
\* printed plus the number of fetches of the run itself.
C24_CounterCumulative ==
  /\ [][total_dockets_processed' >= total_dockets_processed]_vars
  /\ [](main_pc = "finished" =>
          /\ reported[Len(reported)] = total_dockets_processed
          /\ total_dockets_processed = PreviousReport(reported) + CountedThisRun)

\* C24 witness: the second run of two dockets prints 4.
C24_Witness ==
  /\ main_pc = "finished"
  /\ Len(all_docket_ids) = 2
  /\ reported = <<2, 4>>
  /\ CountedThisRun = 2

====
